---- MODULE Spec2Model ----
(***************************************************************************)
(* The task dispatch and lifecycle engine of CCManager: TaskManager        *)
(* (services/task-manager.ts), the ClaudeProcess supervisor it spawns      *)
(* (services/process-spawner.ts), the history sink it calls                *)
(* (services/history-service.ts) and the WebSocket push of its events      *)
(* (server/websocket/index.ts).                                            *)
(*                                                                         *)
(* The engine runs on one Node.js event loop.  Each action below is one    *)
(* run-to-completion step: a call of a public method, or the callback of   *)
(* one I/O completion (a project lookup, a history write, a child-process  *)
(* event), together with every synchronous statement that follows it up    *)
(* to the next await on real I/O.                                          *)
(*                                                                         *)
(* Spec is the engine under a few submissions; SpecAdmission is the same   *)
(* engine under more submissions than there are concurrency slots;         *)
(* SpecQueue is the engine under still more submissions, with workers that *)
(* write nothing; SpecStream is the engine under one submission or so,     *)
(* with workers that write more.                                           *)
(* SpecSupervisor is one ClaudeProcess used by itself, SpecHistory the      *)
(* history file used by itself, SpecSocket the engine with WebSocket       *)
(* clients that come and go, and SpecSpawn the engine with workers the OS  *)
(* may fail to spawn.  SpecLive is SpecSpawn in an environment that        *)
(* finishes what it began; SpecObserver is one ClaudeProcess with or       *)
(* without a listener for its error event.                                 *)
(***************************************************************************)
EXTENDS Integers, Sequences, FiniteSets, TLC

\* ---------------------------------------------------------------- bounds
\* createTask calls made over a run
MaxTasks == 2
\* createTask calls made over a run that fills the concurrency slots
MaxBurst == 4
\* createTask calls made over a run of workers that write nothing
MaxQueue == 5
\* stdout/stderr chunks delivered over a run, all workers together
MaxChunks == 1
\* createTask calls, and chunks delivered, over a run that follows the text of
\* a worker
MaxWriters == 1
MaxStream == 3
\* the largest budget a supervisor is started with, in hundredths
MaxBudget == 1000
\* kill() calls made on a supervisor that is used by itself
MaxKills == 2
\* cancelTask calls that find their task, over a run
MaxCancels == 1
\* addTaskToHistory calls made on a history file that is used by itself
MaxAdds == 2
\* WebSocket connections made over a run
MaxClients == 2

\* ------------------------------------------------------- program constants
MAX_CONCURRENT_TASKS == 3
\* the number of tasks addTaskToHistory keeps
HISTORY_LIMIT == 100

\* the ids createTask can hand out
Max(a, b) == IF a > b THEN a ELSE b
TaskIds == 1..Max(Max(MaxTasks, MaxBurst), Max(MaxQueue, MaxWriters))

\* exit codes a worker reports: 0, a non-zero code, or null (death by signal)
ExitCodes == {"0", "1", "null"}
\* a worker that was sent SIGTERM ends by the signal (code null) unless it had
\* finished anyway; one that was not ends with a code
ExitCodesOf(p) == IF p.killed THEN {"0", "null"} ELSE {"0", "1"}

\* stdout / stderr chunks a worker writes
OutChunks == {"ab", "MaxTurns"}
ErrChunks == {"boom", "max_turns"}

VARIABLES
    calls,          \* createTask calls made so far
    rejected,       \* createTask calls that threw `Project not found`
    creating,       \* createTask calls awaiting getProjectById
    tasks,          \* the Task objects, by id (ids are handed out in creation order)
    pendingTasks,   \* TaskManager.pendingTasks
    runningTasks,   \* key set of TaskManager.runningTasks
    starting,       \* tasks shifted off the queue whose startTask awaits getProjectById
    procs,          \* the ClaudeProcess of each task
    chunks,         \* chunks delivered so far
    events,         \* per task, the 'event' emissions that carry it, in order
    payloads,       \* per task, the `output` field of its task:output events, in order
    historyCalls,   \* per task, the status at each addTaskToHistory(task) call
    historyWrites,  \* awaited addTaskToHistory calls in flight, with what awaits them
    cancelResult,   \* what the latest cancelTask call returned ("none" before any)
    history,        \* the tasks of the history file, oldest first
    adds,           \* the addTaskToHistory calls made on the file itself, in call order
    clients         \* the WebSocket clients, in connection order, with what each was sent

vars == <<calls, rejected, creating, tasks, pendingTasks, runningTasks, starting,
          procs, chunks, events, payloads, historyCalls, historyWrites,
          cancelResult, history, adds, clients>>

\* ------------------------------------------------------------------ helpers

Terminal == {"completed", "failed", "cancelled"}
TerminalEvents == {"task:completed", "task:failed", "task:cancelled"}

\* a Task as createTask builds it
NewTask ==
    [status |-> "pending", maxBudget |-> 0, output |-> <<>>, error |-> <<>>,
     startedAt |-> FALSE, completedAt |-> FALSE, durationMs |-> FALSE]

\* input.maxBudget of the createTask call that creates task id, in hundredths
\* (budgets are held in hundredths throughout; 0 stands for no budget): the
\* calls of a run alternate between the two budgets the tests submit (2.0 and
\* 1.0)
InputBudget(id) == IF id % 2 = 1 THEN 200 ELSE 100

\* a ClaudeProcess.  child is the child process: "none" before start(), then
\* "alive", or "failed" when the OS could not spawn it, then "exited"; killed
\* is child.killed, signals counts the SIGTERMs sent to the child, kills the
\* kill() calls, spawns the spawn() calls made for the task, maxBudget is
\* options.maxBudget, args the arguments the child was spawned with, output
\* and errorOutput the text read from the child's stdout and stderr, errored
\* whether the child has emitted 'error', emitted what the supervisor has
\* emitted on the child's 'exit' and 'error' events, in order
NoProc ==
    [child |-> "none", killed |-> FALSE, signals |-> 0, kills |-> 0,
     spawns |-> 0, maxBudget |-> 0, args |-> <<>>, output |-> <<>>,
     errorOutput |-> <<>>, errored |-> FALSE, emitted |-> <<>>,
     listening |-> FALSE, threw |-> FALSE]

\* options.prompt
Prompt == "Fix the bug"

\* Number.prototype.toString() of a natural number: its decimal digits
Digit(d) ==
    CASE d = 0 -> "0" [] d = 1 -> "1" [] d = 2 -> "2" [] d = 3 -> "3"
      [] d = 4 -> "4" [] d = 5 -> "5" [] d = 6 -> "6" [] d = 7 -> "7"
      [] d = 8 -> "8" [] d = 9 -> "9"
RECURSIVE NumberToString(_)
NumberToString(n) == IF n < 10 THEN Digit(n) ELSE NumberToString(n \div 10) \o Digit(n % 10)

\* Math.ceil(maxBudget * 10) rounding down where it should round up
MaxTurnsFloor(maxBudget) ==
    LET floor == maxBudget \div 10
    IN  IF floor > 25 THEN floor ELSE 25

\* Math.max(25, Math.ceil(maxBudget * 10)), for a budget in hundredths
MaxTurns(maxBudget) ==
    LET ceil == (maxBudget + 9) \div 10
    IN  IF ceil > 25 THEN ceil ELSE 25

\* the args array start() builds
StartArgs(maxBudget) ==
    <<"-p", Prompt, "--dangerously-skip-permissions">>
        \o (IF maxBudget # 0
            THEN <<"--max-turns", NumberToString(MaxTurns(maxBudget))>>
            ELSE <<>>)
        \o <<"--verbose">>

\* start(): the child is spawned, or the OS fails to spawn it (the failure is
\* reported later, by the child's 'error' event)
StartProc(p, spawned) ==
    [p EXCEPT !.child = IF spawned THEN "alive" ELSE "failed",
              !.args = StartArgs(p.maxBudget)]

\* spawnClaude(options): a new supervisor, started
SpawnClaudeOutcome(p, maxBudget, spawned) ==
    StartProc([NoProc EXCEPT !.spawns = p.spawns + 1, !.maxBudget = maxBudget],
              spawned)

\* spawnClaude(options) when the OS spawns the child
SpawnClaude(p, maxBudget) == SpawnClaudeOutcome(p, maxBudget, TRUE)

\* the (code, signal) of an exit emission
ExitEvent(code) ==
    CASE code = "0" -> "exit(0,null)"
      [] code = "1" -> "exit(1,null)"
      [] code = "null" -> "exit(null,SIGTERM)"

\* child.on("exit"): the supervisor emits exit(code, signal)
OnChildExit(p, code) ==
    [p EXCEPT !.child = "exited", !.emitted = Append(@, ExitEvent(code))]

\* proc.on("error", ...): an observer subscribes to the supervisor's error event
Subscribe(p) == [p EXCEPT !.listening = TRUE]

\* child.on("error"): the supervisor emits error(err.message), then
\* exit(1, null); an EventEmitter with no listener for 'error' throws on
\* emit("error"), and the handler ends there
OnChildError(p) ==
    IF p.listening
    THEN [p EXCEPT !.errored = TRUE,
                   !.emitted = @ \o <<"error(message)", "exit(1,null)">>]
    ELSE [p EXCEPT !.errored = TRUE, !.threw = TRUE]

\* stdout.on("data"): the chunk is added to output and emitted as output
OnStdout(p, data) ==
    [p EXCEPT !.output = Append(@, data), !.emitted = Append(@, "output(data)")]

\* stderr.on("data"): the chunk is added to errorOutput and emitted as error,
\* which throws when no one listens
OnStderr(p, data) ==
    IF p.listening
    THEN [p EXCEPT !.errorOutput = Append(@, data),
                   !.emitted = Append(@, "error(data)")]
    ELSE [p EXCEPT !.errorOutput = Append(@, data), !.threw = TRUE]

\* ClaudeProcess.isRunning()
isRunning(p) == p.child # "none" /\ ~p.killed

\* this.emit("event", ...) for an event carrying task t
Emit(ev, t, type) == [ev EXCEPT ![t] = Append(@, type)]

\* addTaskToHistory(task) is called: the call is recorded with the task's status
CallHistory(hc, t, status) == [hc EXCEPT ![t] = Append(@, status)]

\* kill() with its guard on child.killed inverted: no signal is sent to a
\* child that has not been signalled yet
KillProcGuardInverted(p) ==
    IF p.child # "none" /\ p.killed
    THEN [p EXCEPT !.signals = @ + 1, !.kills = @ + 1]
    ELSE [p EXCEPT !.kills = @ + 1]

\* kill() without its guard on child.killed: a child that was sent SIGTERM
\* and is still alive is sent it again
KillProcNoGuard(p) ==
    IF p.child = "alive"
    THEN [p EXCEPT !.killed = TRUE, !.signals = @ + 1, !.kills = @ + 1]
    ELSE [p EXCEPT !.kills = @ + 1]

\* ClaudeProcess.kill().  child.kill("SIGTERM") delivers the signal and sets
\* child.killed only while the child is alive: for a child that has exited,
\* or was never spawned, it returns false and changes nothing.
KillProc(p) ==
    IF p.child # "none" /\ ~p.killed
    THEN IF p.child = "alive"
         THEN [p EXCEPT !.killed = TRUE, !.signals = @ + 1, !.kills = @ + 1]
         ELSE [p EXCEPT !.kills = @ + 1]
    ELSE [p EXCEPT !.kills = @ + 1]

\* processQueue() reading the head of the queue where it should shift it off:
\* the task it starts stays queued
ProcessQueueKeepsHead(pending, running, st) ==
    IF Len(pending) > 0 /\ Cardinality(running) < MAX_CONCURRENT_TASKS
    THEN [pendingTasks |-> pending, starting |-> st \cup {Head(pending)}]
    ELSE [pendingTasks |-> pending, starting |-> st]

\* processQueue() up to its first await: when the queue is non-empty and the
\* running map is below the ceiling, the head is shifted off and startTask
\* begins its project lookup.  Yields the new queue and the new set of
\* starting tasks.
ProcessQueue(pending, running, st) ==
    IF Len(pending) > 0 /\ Cardinality(running) < MAX_CONCURRENT_TASKS
    THEN [pendingTasks |-> Tail(pending), starting |-> st \cup {Head(pending)}]
    ELSE [pendingTasks |-> pending, starting |-> st]

\* TaskManager.getPendingCount / getRunningCount / getTask
getPendingCount == Len(pendingTasks)
getRunningCount == Cardinality(runningTasks)
InPending(id) == \E i \in 1..Len(pendingTasks) : pendingTasks[i] = id
getTask(id) == IF InPending(id) \/ id \in runningTasks THEN id ELSE 0

\* the values of the running map as an array.  The map iterates in insertion
\* order, which the model does not keep: the running tasks are listed by id.
RECURSIVE ValuesOf(_)
ValuesOf(running) ==
    IF running = {} THEN <<>>
    ELSE LET t == CHOOSE x \in running : \A y \in running : x <= y
         IN  <<t>> \o ValuesOf(running \ {t})

\* getActiveTasks with its spread written the other way round:
\* [...pending, ...running]
getActiveTasksPendingFirst == pendingTasks \o ValuesOf(runningTasks)

\* TaskManager.getActiveTasks: [...running, ...pending]
getActiveTasks == ValuesOf(runningTasks) \o pendingTasks

\* ------------------------------------------------------ the WebSocket push

\* JSON.stringify(event): the text is made when the event is emitted, so it
\* carries the fields the task has at that moment ("none" stands for a field
\* the event does not have)
Message(type, id, task, output) ==
    [type |-> type, id |-> id, task |-> task, output |-> output]

\* JSON.stringify({type: "initial", tasks: activeTasks})
InitialMessage(active, all) ==
    [type |-> "initial",
     tasks |-> [i \in 1..Len(active) |-> [id |-> active[i], task |-> all[active[i]]]]]

\* the forwarding loop without its readyState test
SendToAll(cl, message) ==
    [c \in DOMAIN cl |-> [cl[c] EXCEPT !.received = Append(@, message)]]

\* wss.clients.forEach: the message goes to each client that is OPEN
Send(cl, message) ==
    [c \in DOMAIN cl |->
        IF cl[c].readyState = "OPEN"
        THEN [cl[c] EXCEPT !.received = Append(@, message)]
        ELSE cl[c]]

\* the listener of taskManager's 'event', for an event that carries task id
Forward(cl, id, type, all) == Send(cl, Message(type, id, all[id], "none"))

\* the same for a task:output event, which carries the id of the task and the
\* chunk, and not the task
ForwardOutput(cl, id, data, all) ==
    Send(cl, Message("task:output", id, "none", data))

\* --------------------------------------------------------- the history file

\* a Task as the history file holds it
StoredTask(id, status) == [id |-> id, status |-> status]

\* a history file that n addTaskToHistory calls for n tasks have written
StoredFile(n) == [i \in 1..n |-> StoredTask(i, "completed")]

\* the sizes of the history files a run starts with
StoredSizes == {0, HISTORY_LIMIT - 1, HISTORY_LIMIT}

\* the tasks addTaskToHistory is called with: ones the file may hold, and new ones
AddedTasks ==
    {StoredTask(id, status) :
        id \in {1, HISTORY_LIMIT, HISTORY_LIMIT + 1, HISTORY_LIMIT + 2},
        status \in {"failed", "cancelled"}}

\* history.tasks.findIndex((t) => t.id === task.id), 0 for not found
FindIndex(list, id) ==
    IF \E i \in 1..Len(list) : list[i].id = id
    THEN CHOOSE i \in 1..Len(list) :
            /\ list[i].id = id
            /\ \A j \in 1..(i - 1) : list[j].id # id
    ELSE 0

\* history.tasks.slice(-HISTORY_LIMIT)
SliceLast(list) == SubSeq(list, Len(list) - HISTORY_LIMIT + 1, Len(list))

\* addTaskToHistory pushing the task whether or not its id is in the list
AddTaskAlwaysPushes(list, task) ==
    LET pushed == Append(list, task)
    IN  IF Len(pushed) > HISTORY_LIMIT THEN SliceLast(pushed) ELSE pushed

\* addTaskToHistory keeping the first 100 tasks where it should keep the last
AddTaskKeepsFirst(list, task) ==
    LET existingIndex == FindIndex(list, task.id)
        put == IF existingIndex # 0
               THEN [list EXCEPT ![existingIndex] = task]
               ELSE Append(list, task)
    IN  IF Len(put) > HISTORY_LIMIT THEN SubSeq(put, 1, HISTORY_LIMIT) ELSE put

\* what addTaskToHistory(task) makes of the list it loaded
AddTask(list, task) ==
    LET existingIndex == FindIndex(list, task.id)
        put == IF existingIndex # 0
               THEN [list EXCEPT ![existingIndex] = task]
               ELSE Append(list, task)
    IN  IF Len(put) > HISTORY_LIMIT THEN SliceLast(put) ELSE put

\* ------------------------------------------------------------------ Init

InitEngine ==
    /\ calls = 0
    /\ rejected = 0
    /\ creating = 0
    /\ tasks = <<>>
    /\ pendingTasks = <<>>
    /\ runningTasks = {}
    /\ starting = {}
    /\ procs = [t \in TaskIds |-> NoProc]
    /\ chunks = 0
    /\ events = [t \in TaskIds |-> <<>>]
    /\ payloads = [t \in TaskIds |-> <<>>]
    /\ historyCalls = [t \in TaskIds |-> <<>>]
    /\ historyWrites = {}
    /\ cancelResult = "none"
    /\ adds = <<>>
    /\ clients = <<>>

\* a fresh installation: no history file yet (loadHistory reads it as empty)
Init == InitEngine /\ history = <<>>

\* an installation whose history file earlier runs have written
InitHistory == InitEngine /\ history \in {StoredFile(n) : n \in StoredSizes}

\* ---------------------------------------------------------------- actions

\* createTask(input) is called, as one of at most n calls: it awaits
\* getProjectById(input.projectId)
CreateTaskUpTo(n) ==
    /\ calls < n
    /\ calls' = calls + 1
    /\ creating' = creating + 1
    /\ UNCHANGED <<history, adds, rejected, tasks, pendingTasks, runningTasks,
                   starting, procs, chunks, events, clients, payloads, historyCalls,
                   historyWrites, cancelResult>>

CreateTask == CreateTaskUpTo(MaxTasks)

\* createTask(input) is called, in a run with more calls than slots
CreateTaskBurst == CreateTaskUpTo(MaxBurst)

\* createTask building and queueing the Task before it looks at the result of
\* the lookup: a call for an absent project still throws, with the task
\* already in the queue
CreateTaskLookupDoneEnqueuesFirst(found) ==
    /\ creating > 0
    /\ creating' = creating - 1
    /\ LET id == Len(tasks) + 1
           q  == ProcessQueue(Append(pendingTasks, id), runningTasks, starting)
       IN  /\ tasks' = Append(tasks, [NewTask EXCEPT !.maxBudget = InputBudget(id)])
           /\ events' = Emit(events, id, "task:created")
           /\ clients' = Forward(clients, id, "task:created", tasks')
           /\ pendingTasks' = q.pendingTasks
           /\ starting' = q.starting
    /\ rejected' = IF found THEN rejected ELSE rejected + 1
    /\ UNCHANGED <<history, adds,
                   calls, runningTasks, procs, chunks, payloads, historyCalls,
                   historyWrites, cancelResult>>

\* createTask(input) is called, in a run long enough to have a task queued
\* behind three running ones while a fifth is being started
CreateTaskQueue == CreateTaskUpTo(MaxQueue)

\* createTask(input) is called, in a run that follows the text of a worker
CreateTaskWriter == CreateTaskUpTo(MaxWriters)

\* the lookup of a createTask call completes
CreateTaskLookupDone(found) ==
    /\ creating > 0
    /\ creating' = creating - 1
    /\ IF ~found
       THEN \* throw new Error(`Project not found: ...`)
            /\ rejected' = rejected + 1
            /\ UNCHANGED <<tasks, pendingTasks, starting, events, clients>>
       ELSE LET id == Len(tasks) + 1
                q  == ProcessQueue(Append(pendingTasks, id), runningTasks, starting)
            IN  /\ tasks' = Append(tasks, [NewTask EXCEPT !.maxBudget = InputBudget(id)])
                /\ events' = Emit(events, id, "task:created")
                /\ clients' = Forward(clients, id, "task:created", tasks')
                /\ pendingTasks' = q.pendingTasks
                /\ starting' = q.starting
                /\ UNCHANGED rejected
    /\ UNCHANGED <<history, adds,
                   calls, runningTasks, procs, chunks, payloads, historyCalls,
                   historyWrites, cancelResult>>

\* the lookup of startTask(task) completes, for a task taken off the queue;
\* when the project is found the OS spawns the worker or fails to
StartTaskSpawning(t, found, spawned) ==
    /\ t \in starting
    /\ IF ~found
       THEN \* late-binding failure: finalize, persist, and only then go on
            /\ tasks' = [tasks EXCEPT ![t].status = "failed",
                                      ![t].error = <<"Project not found">>,
                                      ![t].completedAt = TRUE]
            /\ events' = Emit(events, t, "task:failed")
            /\ clients' = Forward(clients, t, "task:failed", tasks')
            /\ historyCalls' = CallHistory(historyCalls, t, "failed")
            /\ historyWrites' = historyWrites \cup {[task |-> t, awaitedBy |-> "startTask"]}
            /\ starting' = starting \ {t}
            /\ UNCHANGED <<pendingTasks, runningTasks, procs>>
       ELSE \* spawn the worker, then the loop of processQueue goes round
            LET running == runningTasks \cup {t}
                q == ProcessQueue(pendingTasks, running, starting \ {t})
            IN  /\ tasks' = [tasks EXCEPT ![t].status = "running",
                                          ![t].startedAt = TRUE]
                /\ procs' = [procs EXCEPT
                        ![t] = Subscribe(SpawnClaudeOutcome(@, tasks[t].maxBudget, spawned))]
                /\ runningTasks' = running
                /\ events' = Emit(events, t, "task:started")
                /\ clients' = Forward(clients, t, "task:started", tasks')
                /\ pendingTasks' = q.pendingTasks
                /\ starting' = q.starting
                /\ UNCHANGED <<historyCalls, historyWrites>>
    /\ UNCHANGED <<history, adds,
                   calls, rejected, creating, chunks, payloads, cancelResult>>

\* the lookup of startTask(task) completes, and the OS spawns the worker if
\* there is one to spawn
StartTaskLookupDone(t, found) == StartTaskSpawning(t, found, TRUE)

\* the output handler assigning the chunk to task.output where it should
\* append it
ProcOutputOverwrites(t, data, n) ==
    /\ procs[t].child = "alive"
    /\ chunks < n
    /\ chunks' = chunks + 1
    /\ procs' = [procs EXCEPT ![t].output = Append(@, data)]
    /\ tasks' = [tasks EXCEPT ![t].output = <<data>>]
    /\ events' = Emit(events, t, "task:output")
    /\ clients' = ForwardOutput(clients, t, data, tasks')
    /\ payloads' = [payloads EXCEPT ![t] = Append(@, data)]
    /\ UNCHANGED <<history, adds,
                   calls, rejected, creating, pendingTasks, runningTasks,
                   starting, historyCalls, historyWrites, cancelResult>>

\* proc.on("output"): a stdout chunk of t's worker, as one of at most n chunks
ProcOutputUpTo(t, data, n) ==
    /\ procs[t].child = "alive"
    /\ chunks < n
    /\ chunks' = chunks + 1
    /\ procs' = [procs EXCEPT ![t].output = Append(@, data)]
    /\ tasks' = [tasks EXCEPT ![t].output = Append(@, data)]
    /\ events' = Emit(events, t, "task:output")
    /\ clients' = ForwardOutput(clients, t, data, tasks')
    /\ payloads' = [payloads EXCEPT ![t] = Append(@, data)]
    /\ UNCHANGED <<history, adds,
                   calls, rejected, creating, pendingTasks, runningTasks,
                   starting, historyCalls, historyWrites, cancelResult>>

ProcOutput(t, data) == ProcOutputUpTo(t, data, MaxChunks)

\* proc.on("error"): a stderr chunk of t's worker, as one of at most n chunks
ProcErrorUpTo(t, data, n) ==
    /\ procs[t].child = "alive"
    /\ chunks < n
    /\ chunks' = chunks + 1
    /\ procs' = [procs EXCEPT ![t].errorOutput = Append(@, data)]
    /\ tasks' = [tasks EXCEPT ![t].error = Append(@, data)]
    /\ UNCHANGED <<history, adds,
                   calls, rejected, creating, pendingTasks, runningTasks,
                   starting, events, clients, payloads, historyCalls, historyWrites,
                   cancelResult>>

ProcError(t, data) == ProcErrorUpTo(t, data, MaxChunks)

\* `Process exited with code ${code}`
ExitMessage(code) ==
    IF code = "1" THEN "Process exited with code 1" ELSE "Process exited with code null"

\* the exit handler setting the exit message whatever stderr gave
FinalErrorAlwaysExitMessage(error, code) == <<ExitMessage(code)>>

\* the error text of a task that failed by exit code: what stderr gave, or
\* the exit message when it gave nothing
FinalError(error, code) == IF error = <<>> THEN <<ExitMessage(code)>> ELSE error

\* the exit handler with a retry that does not look at the text the worker
\* wrote: any non-zero exit of a worker spawned fewer than 3 times emits
\* task:retrying, spawns a replacement and leaves the task running
ProcExitRetriesAnyFailure(t, code) ==
    /\ procs[t].child = "alive"
    /\ code \in ExitCodesOf(procs[t])
    /\ IF code # "0" /\ procs[t].spawns < 3
       THEN /\ procs' = [procs EXCEPT ![t] = SpawnClaude(@, tasks[t].maxBudget)]
            /\ events' = [events EXCEPT ![t] = @ \o <<"task:retrying", "task:started">>]
            /\ UNCHANGED <<tasks, runningTasks, historyCalls, historyWrites>>
            /\ clients' = Forward(Forward(clients, t, "task:retrying", tasks'),
                                  t, "task:started", tasks')
       ELSE /\ procs' = [procs EXCEPT ![t] = OnChildExit(@, code)]
            /\ runningTasks' = runningTasks \ {t}
            /\ tasks' = [tasks EXCEPT ![t].status = IF code = "0" THEN "completed" ELSE "failed",
                                      ![t].completedAt = TRUE,
                                      ![t].durationMs = TRUE,
                                      ![t].error = IF code = "0" THEN @ ELSE FinalError(@, code)]
            /\ events' = Emit(events, t, IF code = "0" THEN "task:completed" ELSE "task:failed")
            /\ clients' = Forward(clients, t, IF code = "0" THEN "task:completed" ELSE "task:failed", tasks')
            /\ historyCalls' = CallHistory(historyCalls, t, IF code = "0" THEN "completed" ELSE "failed")
            /\ historyWrites' = historyWrites \cup {[task |-> t, awaitedBy |-> "exit"]}
    /\ UNCHANGED <<history, adds,
                   calls, rejected, creating, pendingTasks, starting, chunks,
                   payloads, cancelResult>>

\* the exit handler calling processQueue() first: the slot is handed on before
\* the terminal event is emitted and the task is persisted
ProcExitAdmitsFirst(t, code) ==
    LET running == runningTasks \ {t}
        q == ProcessQueue(pendingTasks, running, starting)
    IN  /\ procs[t].child = "alive"
        /\ code \in ExitCodesOf(procs[t])
        /\ procs' = [procs EXCEPT ![t] = OnChildExit(@, code)]
        /\ runningTasks' = running
        /\ pendingTasks' = q.pendingTasks
        /\ starting' = q.starting
        /\ tasks' = [tasks EXCEPT ![t].status = IF code = "0" THEN "completed" ELSE "failed",
                                  ![t].completedAt = TRUE,
                                  ![t].durationMs = TRUE,
                                  ![t].error = IF code = "0" THEN @ ELSE FinalError(@, code)]
        /\ events' = Emit(events, t, IF code = "0" THEN "task:completed" ELSE "task:failed")
        /\ clients' = Forward(clients, t,
                              IF code = "0" THEN "task:completed" ELSE "task:failed", tasks')
        /\ historyCalls' = CallHistory(historyCalls, t, IF code = "0" THEN "completed" ELSE "failed")
        /\ historyWrites' = historyWrites \cup {[task |-> t, awaitedBy |-> "exit"]}
        /\ UNCHANGED <<history, adds, calls, rejected, creating, chunks,
                       payloads, cancelResult>>

\* proc.on("exit"): t's worker reports termination; the handler runs up to its
\* await of addTaskToHistory
ProcExit(t, code) ==
    /\ procs[t].child = "alive"
    /\ code \in ExitCodesOf(procs[t])
    /\ procs' = [procs EXCEPT ![t] = OnChildExit(@, code)]
    /\ runningTasks' = runningTasks \ {t}
    /\ IF code = "0"
       THEN /\ tasks' = [tasks EXCEPT ![t].status = "completed",
                                      ![t].completedAt = TRUE,
                                      ![t].durationMs = TRUE]
            /\ events' = Emit(events, t, "task:completed")
            /\ clients' = Forward(clients, t, "task:completed", tasks')
            /\ historyCalls' = CallHistory(historyCalls, t, "completed")
       ELSE /\ tasks' = [tasks EXCEPT ![t].status = "failed",
                                      ![t].completedAt = TRUE,
                                      ![t].durationMs = TRUE,
                                      ![t].error = FinalError(@, code)]
            /\ events' = Emit(events, t, "task:failed")
            /\ clients' = Forward(clients, t, "task:failed", tasks')
            /\ historyCalls' = CallHistory(historyCalls, t, "failed")
    /\ historyWrites' = historyWrites \cup {[task |-> t, awaitedBy |-> "exit"]}
    /\ UNCHANGED <<history, adds,
                   calls, rejected, creating, pendingTasks, starting, chunks,
                   payloads, cancelResult>>

\* err.message of the 'error' a child that could not be spawned emits
SpawnErrorMessage == "spawn claude ENOENT"

\* the worker of t could not be spawned and its child emits 'error': the
\* supervisor emits error(err.message), which the error handler adds to
\* task.error, and then exit(1, null), whose handler runs up to its await of
\* addTaskToHistory
ProcSpawnError(t) ==
    /\ procs[t].child = "failed"
    /\ ~procs[t].errored
    /\ procs' = [procs EXCEPT ![t] = OnChildError(@)]
    /\ runningTasks' = runningTasks \ {t}
    /\ tasks' = [tasks EXCEPT ![t].status = "failed",
                              ![t].completedAt = TRUE,
                              ![t].durationMs = TRUE,
                              ![t].error = FinalError(Append(@, SpawnErrorMessage), "1")]
    /\ events' = Emit(events, t, "task:failed")
    /\ clients' = Forward(clients, t, "task:failed", tasks')
    /\ historyCalls' = CallHistory(historyCalls, t, "failed")
    /\ historyWrites' = historyWrites \cup {[task |-> t, awaitedBy |-> "exit"]}
    /\ UNCHANGED <<history, adds, calls, rejected, creating, pendingTasks,
                   starting, chunks, payloads, cancelResult>>

\* who awaits an addTaskToHistory call: startTask on its not-found path (and
\* with it the loop of processQueue), or the exit handler
Awaiters == {"startTask", "exit"}

\* an addTaskToHistory call resolves; what awaited it goes on: the exit handler
\* calls processQueue(), the loop of processQueue goes round after a failed start
HistoryWriteDone(w) ==
    /\ w \in historyWrites
    /\ historyWrites' = historyWrites \ {w}
    /\ LET q == ProcessQueue(pendingTasks, runningTasks, starting)
       IN  /\ pendingTasks' = q.pendingTasks
           /\ starting' = q.starting
    /\ UNCHANGED <<history, adds,
                   calls, rejected, creating, tasks, runningTasks, procs,
                   chunks, events, clients, payloads, historyCalls, cancelResult>>

\* an addTaskToHistory call rejects (saveHistory's writeFile fails): the async
\* function awaiting it ends there with a rejected promise no one handles
HistoryWriteFail(w) ==
    /\ w \in historyWrites
    /\ historyWrites' = historyWrites \ {w}
    /\ UNCHANGED <<history, adds,
                   calls, rejected, creating, tasks, pendingTasks,
                   runningTasks, starting, procs, chunks, events, clients, payloads,
                   historyCalls, cancelResult>>

\* pendingTasks.splice(pendingIndex) without its delete count: the task and
\* everything queued behind it are removed
SpliceToEnd(q, id) ==
    SubSeq(q, 1, (CHOOSE i \in 1..Len(q) : q[i] = id) - 1)

\* pendingTasks.splice(pendingIndex, 1)
Splice(q, id) == SelectSeq(q, LAMBDA x : x # id)

\* tasks a cancelTask call has found so far
Cancelled == {t \in 1..Len(tasks) : \E i \in 1..Len(events[t]) : events[t][i] = "task:cancelled"}

\* cancelTask(taskId).  Its addTaskToHistory calls are not awaited: nothing in
\* the engine goes on when they end, so they are recorded as calls only.

\* the branch for a task found in the pending queue
CancelPending(id) ==
    /\ Cardinality(Cancelled) < MaxCancels
    /\ pendingTasks' = Splice(pendingTasks, id)
    /\ tasks' = [tasks EXCEPT ![id].status = "cancelled",
                              ![id].completedAt = TRUE]
    /\ events' = Emit(events, id, "task:cancelled")
    /\ clients' = Forward(clients, id, "task:cancelled", tasks')
    /\ historyCalls' = CallHistory(historyCalls, id, "cancelled")
    /\ cancelResult' = "true"
    /\ UNCHANGED <<history, adds,
                   calls, rejected, creating, runningTasks, starting, procs,
                   chunks, payloads, historyWrites>>

\* the branch for a task found in the running map
CancelRunning(id) ==
    LET running == runningTasks \ {id}
        q == ProcessQueue(pendingTasks, running, starting)
    IN  /\ Cardinality(Cancelled) < MaxCancels
        /\ procs' = [procs EXCEPT ![id] = KillProc(@)]
        /\ tasks' = [tasks EXCEPT ![id].status = "cancelled",
                                  ![id].completedAt = TRUE]
        /\ runningTasks' = running
        /\ events' = Emit(events, id, "task:cancelled")
        /\ clients' = Forward(clients, id, "task:cancelled", tasks')
        /\ historyCalls' = CallHistory(historyCalls, id, "cancelled")
        /\ pendingTasks' = q.pendingTasks
        /\ starting' = q.starting
        /\ cancelResult' = "true"
        /\ UNCHANGED <<history, adds,
                       calls, rejected, creating, chunks, payloads,
                       historyWrites>>

\* cancelTask falling through to `return true` for a task it did not find
CancelNotFoundReturnsTrue(id) ==
    /\ cancelResult' = "true"
    /\ UNCHANGED <<history, adds,
                   calls, rejected, creating, tasks, pendingTasks,
                   runningTasks, starting, procs, chunks, events, clients, payloads,
                   historyCalls, historyWrites>>

\* the task is in neither collection: return false
CancelNotFound(id) ==
    /\ cancelResult' = "false"
    /\ UNCHANGED <<history, adds,
                   calls, rejected, creating, tasks, pendingTasks,
                   runningTasks, starting, procs, chunks, events, clients, payloads,
                   historyCalls, historyWrites>>

CancelTask(id) ==
    IF InPending(id) THEN CancelPending(id)
    ELSE IF id \in runningTasks THEN CancelRunning(id)
    ELSE CancelNotFound(id)

\* ------------------------------------------- a supervisor used by itself

\* the supervisor that is used without the task manager
Sup == 1

\* everything but the supervisors
engineVars ==
    <<history, adds, calls, rejected, creating, tasks, pendingTasks, runningTasks, starting,
      chunks, events, clients, payloads, historyCalls, historyWrites, cancelResult>>

\* new ClaudeProcess(options).start(), with or without a budget and with or
\* without an observer of its error event; the OS spawns the child or fails to
SupStartWith(maxBudget, spawned, listening) ==
    /\ procs[Sup].child = "none"
    /\ procs' = [procs EXCEPT ![Sup] =
            IF listening
            THEN Subscribe(SpawnClaudeOutcome(@, maxBudget, spawned))
            ELSE SpawnClaudeOutcome(@, maxBudget, spawned)]
    /\ UNCHANGED engineVars

\* the same with an observer of its error event, as the task manager has
SupStart(maxBudget, spawned) == SupStartWith(maxBudget, spawned, TRUE)

\* the child writes a chunk to stdout, as one of at most MaxStream chunks
SupStdout(data) ==
    /\ procs[Sup].child = "alive"
    /\ Len(procs[Sup].output) + Len(procs[Sup].errorOutput) < MaxStream
    /\ procs' = [procs EXCEPT ![Sup] = OnStdout(@, data)]
    /\ UNCHANGED engineVars

\* the child writes a chunk to stderr, as one of at most MaxStream chunks
SupStderr(data) ==
    /\ procs[Sup].child = "alive"
    /\ Len(procs[Sup].output) + Len(procs[Sup].errorOutput) < MaxStream
    /\ procs' = [procs EXCEPT ![Sup] = OnStderr(@, data)]
    /\ UNCHANGED engineVars

\* kill() is called, before or after start()
SupKill ==
    /\ procs[Sup].kills < MaxKills
    /\ procs' = [procs EXCEPT ![Sup] = KillProc(@)]
    /\ UNCHANGED engineVars

\* the child emits 'exit'
SupChildExit(code) ==
    /\ procs[Sup].child = "alive"
    /\ code \in ExitCodesOf(procs[Sup])
    /\ procs' = [procs EXCEPT ![Sup] = OnChildExit(@, code)]
    /\ UNCHANGED engineVars

\* the child emits 'error': the report of a failed spawn, or an error on a
\* child that is alive, after which its 'exit' may still come
SupChildError ==
    /\ procs[Sup].child \in {"alive", "failed"}
    /\ ~procs[Sup].errored
    /\ procs' = [procs EXCEPT ![Sup] = OnChildError(@)]
    /\ UNCHANGED engineVars

\* ------------------------------------------- the history file used by itself

\* everything but the history file and the calls on it
nonStoreVars ==
    <<calls, rejected, creating, tasks, pendingTasks, runningTasks, starting,
      procs, chunks, events, clients, payloads, historyCalls, historyWrites,
      cancelResult>>

\* addTaskToHistory(task) is called: it awaits loadHistory()
AddTaskToHistory(task) ==
    /\ Len(adds) < MaxAdds
    /\ adds' = Append(adds, [task |-> task, phase |-> "load", list |-> <<>>])
    /\ UNCHANGED <<history, nonStoreVars>>

\* loadHistory() resolves with what the file holds; the call puts its task in
\* the list, trims it, and awaits saveHistory()
HistoryLoaded(c) ==
    /\ c \in DOMAIN adds
    /\ adds[c].phase = "load"
    /\ adds' = [adds EXCEPT ![c].phase = "save",
                            ![c].list = AddTask(history, adds[c].task)]
    /\ UNCHANGED <<history, nonStoreVars>>

\* writeFile resolves: the file holds the list of the call
HistorySaved(c) ==
    /\ c \in DOMAIN adds
    /\ adds[c].phase = "save"
    /\ history' = adds[c].list
    /\ adds' = [adds EXCEPT ![c].phase = "done"]
    /\ UNCHANGED nonStoreVars

\* writeFile rejects: the file is left as it was, and the call rejects
HistorySaveFail(c) ==
    /\ c \in DOMAIN adds
    /\ adds[c].phase = "save"
    /\ adds' = [adds EXCEPT ![c].phase = "failed"]
    /\ UNCHANGED <<history, nonStoreVars>>

\* ----------------------------------------------------- WebSocket connections

\* everything but the clients, the supervisors and the history file
engineVarsNoClients ==
    <<adds, calls, rejected, creating, tasks, pendingTasks, runningTasks,
      starting, chunks, events, payloads, historyCalls, historyWrites,
      cancelResult>>

\* wss.on("connection"): the client, which is OPEN, is sent the initial message
WsConnect ==
    /\ Len(clients) < MaxClients
    /\ clients' = Append(clients,
            [readyState |-> "OPEN",
             received |-> <<InitialMessage(getActiveTasks, tasks)>>])
    /\ UNCHANGED <<history, engineVarsNoClients, procs>>

\* the closing handshake of client c begins, from either side
WsClose(c) ==
    /\ c \in DOMAIN clients
    /\ clients[c].readyState = "OPEN"
    /\ clients' = [clients EXCEPT ![c].readyState = "CLOSING"]
    /\ UNCHANGED <<history, engineVarsNoClients, procs>>

\* the connection of client c is gone: after its handshake, or all at once
WsClosed(c) ==
    /\ c \in DOMAIN clients
    /\ clients[c].readyState \in {"OPEN", "CLOSING"}
    /\ clients' = [clients EXCEPT ![c].readyState = "CLOSED"]
    /\ UNCHANGED <<history, engineVarsNoClients, procs>>

\* ------------------------------------------------- what the claims speak of

\* the 'event' emissions of one type that carry task t
CountEvents(t, type) ==
    Cardinality({i \in 1..Len(events[t]) : events[t][i] = type})

\* startTask got past its lookup for t: task:started was emitted, or the
\* late-binding task:failed
Admitted(t) ==
    \E i \in 1..Len(events[t]) : events[t][i] \in {"task:started", "task:failed"}

\* the budget-exceeded signal the tests retry on: /max.?turns/i over the text
\* the worker wrote
MatchesMaxTurns(chunk) == chunk \in {"MaxTurns", "max_turns", "max turns"}
BudgetExceeded(task) ==
    \/ \E i \in 1..Len(task.output) : MatchesMaxTurns(task.output[i])
    \/ \E i \in 1..Len(task.error) : MatchesMaxTurns(task.error[i])

\* nothing asynchronous is in flight: no lookup, no awaited history write
Settled == creating = 0 /\ starting = {} /\ historyWrites = {}

Created == 1..Len(tasks)

Next ==
    \/ CreateTask
    \/ \E found \in BOOLEAN : CreateTaskLookupDone(found)
    \/ \E t \in TaskIds, found \in BOOLEAN : StartTaskLookupDone(t, found)
    \/ \E t \in TaskIds, data \in OutChunks : ProcOutput(t, data)
    \/ \E t \in TaskIds, data \in ErrChunks : ProcError(t, data)
    \/ \E t \in TaskIds, code \in ExitCodes : ProcExit(t, code)
    \/ \E t \in TaskIds, by \in Awaiters : HistoryWriteDone([task |-> t, awaitedBy |-> by])
    \/ \E t \in TaskIds, by \in Awaiters : HistoryWriteFail([task |-> t, awaitedBy |-> by])
    \/ \E id \in TaskIds : CancelTask(id)

Spec == Init /\ [][Next]_vars

\* the engine under enough submissions to fill every slot and leave a queue
NextAdmission ==
    \/ CreateTaskBurst
    \/ \E found \in BOOLEAN : CreateTaskLookupDone(found)
    \/ \E t \in TaskIds, found \in BOOLEAN : StartTaskLookupDone(t, found)
    \/ \E t \in TaskIds, data \in OutChunks : ProcOutput(t, data)
    \/ \E t \in TaskIds, data \in ErrChunks : ProcError(t, data)
    \/ \E t \in TaskIds, code \in ExitCodes : ProcExit(t, code)
    \/ \E t \in TaskIds, by \in Awaiters : HistoryWriteDone([task |-> t, awaitedBy |-> by])
    \/ \E t \in TaskIds, by \in Awaiters : HistoryWriteFail([task |-> t, awaitedBy |-> by])
    \/ \E id \in TaskIds : CancelTask(id)

SpecAdmission == Init /\ [][NextAdmission]_vars

\* the engine under still more submissions, with workers that write nothing
NextQueue ==
    \/ CreateTaskQueue
    \/ \E found \in BOOLEAN : CreateTaskLookupDone(found)
    \/ \E t \in TaskIds, found \in BOOLEAN : StartTaskLookupDone(t, found)
    \/ \E t \in TaskIds, code \in ExitCodes : ProcExit(t, code)
    \/ \E t \in TaskIds, by \in Awaiters : HistoryWriteDone([task |-> t, awaitedBy |-> by])
    \/ \E t \in TaskIds, by \in Awaiters : HistoryWriteFail([task |-> t, awaitedBy |-> by])
    \/ \E id \in TaskIds : CancelTask(id)

SpecQueue == Init /\ [][NextQueue]_vars

\* the engine under few submissions, with workers that write more
NextStream ==
    \/ CreateTaskWriter
    \/ \E found \in BOOLEAN : CreateTaskLookupDone(found)
    \/ \E t \in TaskIds, found \in BOOLEAN : StartTaskLookupDone(t, found)
    \/ \E t \in TaskIds, data \in OutChunks : ProcOutputUpTo(t, data, MaxStream)
    \/ \E t \in TaskIds, data \in ErrChunks : ProcErrorUpTo(t, data, MaxStream)
    \/ \E t \in TaskIds, code \in ExitCodes : ProcExit(t, code)
    \/ \E t \in TaskIds, by \in Awaiters : HistoryWriteDone([task |-> t, awaitedBy |-> by])
    \/ \E t \in TaskIds, by \in Awaiters : HistoryWriteFail([task |-> t, awaitedBy |-> by])
    \/ \E id \in TaskIds : CancelTask(id)

SpecStream == Init /\ [][NextStream]_vars

\* one supervisor, used by itself
NextSupervisor ==
    \/ \E maxBudget \in 0..MaxBudget, spawned \in BOOLEAN : SupStart(maxBudget, spawned)
    \/ SupKill
    \/ \E code \in ExitCodes : SupChildExit(code)
    \/ SupChildError

SpecSupervisor == Init /\ [][NextSupervisor]_vars

NextObserver ==
    \/ \E spawned, listening \in BOOLEAN : SupStartWith(InputBudget(Sup), spawned, listening)
    \/ \E data \in OutChunks : SupStdout(data)
    \/ \E data \in ErrChunks : SupStderr(data)
    \/ \E code \in ExitCodes : SupChildExit(code)
    \/ SupChildError
    \/ SupKill

SpecObserver == Init /\ [][NextObserver]_vars

NextHistory ==
    \/ \E task \in AddedTasks : AddTaskToHistory(task)
    \/ \E c \in 1..MaxAdds : HistoryLoaded(c)
    \/ \E c \in 1..MaxAdds : HistorySaved(c)
    \/ \E c \in 1..MaxAdds : HistorySaveFail(c)

SpecHistory == InitHistory /\ [][NextHistory]_vars

NextSocket ==
    \/ CreateTaskWriter
    \/ \E found \in BOOLEAN : CreateTaskLookupDone(found)
    \/ \E t \in TaskIds, found \in BOOLEAN : StartTaskLookupDone(t, found)
    \/ \E t \in TaskIds, data \in OutChunks : ProcOutput(t, data)
    \/ \E t \in TaskIds, code \in ExitCodes : ProcExit(t, code)
    \/ \E t \in TaskIds, by \in Awaiters : HistoryWriteDone([task |-> t, awaitedBy |-> by])
    \/ WsConnect
    \/ \E c \in 1..MaxClients : WsClose(c)
    \/ \E c \in 1..MaxClients : WsClosed(c)

SpecSocket == Init /\ [][NextSocket]_vars

NextSpawn ==
    \/ CreateTaskBurst
    \/ \E found \in BOOLEAN : CreateTaskLookupDone(found)
    \/ \E t \in TaskIds, found, spawned \in BOOLEAN : StartTaskSpawning(t, found, spawned)
    \/ \E t \in TaskIds : ProcSpawnError(t)
    \/ \E t \in TaskIds, code \in ExitCodes : ProcExit(t, code)
    \/ \E t \in TaskIds, by \in Awaiters : HistoryWriteDone([task |-> t, awaitedBy |-> by])
    \/ \E t \in TaskIds, by \in Awaiters : HistoryWriteFail([task |-> t, awaitedBy |-> by])

SpecSpawn == Init /\ [][NextSpawn]_vars

\* what the environment owes the engine: every project lookup returns, every
\* worker that was spawned exits, every failed spawn is reported, and every
\* awaited history write ends, resolved or rejected
EnvironmentFinishes ==
    /\ WF_vars(\E found \in BOOLEAN : CreateTaskLookupDone(found))
    /\ WF_vars(\E t \in TaskIds, found, spawned \in BOOLEAN :
                    StartTaskSpawning(t, found, spawned))
    /\ WF_vars(\E t \in TaskIds, code \in ExitCodes : ProcExit(t, code))
    /\ WF_vars(\E t \in TaskIds : ProcSpawnError(t))
    /\ WF_vars(\E t \in TaskIds, by \in Awaiters :
                    \/ HistoryWriteDone([task |-> t, awaitedBy |-> by])
                    \/ HistoryWriteFail([task |-> t, awaitedBy |-> by]))

\* the engine of SpecSpawn in an environment that finishes what it began
SpecLive == Init /\ [][NextSpawn]_vars /\ EnvironmentFinishes

\* ------------------------------------------------------------------ claims

\* C1: in every reachable state the running set holds at most 3 tasks
\* (getRunningCount() <= MAX_CONCURRENT_TASKS).
C1_RunningAtMostCeiling == getRunningCount <= MAX_CONCURRENT_TASKS

\* C2: every accepted task that has not reached a terminal state is in exactly
\* one of the pending queue and the running set, so getTask finds it and the
\* two counts add up to the number of such tasks.
C2_LiveTasksAccounted ==
    /\ \A t \in Created :
          tasks[t].status \notin Terminal =>
              /\ InPending(t) # (t \in runningTasks)
              /\ getTask(t) = t
    /\ getPendingCount + getRunningCount
          = Cardinality({t \in Created : tasks[t].status \notin Terminal})

\* C3: tasks are started in submission order: when task:started has been
\* emitted for a task, every task created before it has had its task:started
\* (or its late-binding task:failed) too, unless it was cancelled.
C3_StartedInSubmissionOrder ==
    \A x, y \in Created :
        (x < y /\ CountEvents(y, "task:started") > 0) =>
            (Admitted(x) \/ x \in Cancelled)

\* C4: terminal states are absorbing: a task whose status is completed, failed
\* or cancelled keeps that status in every later state.
C4_TerminalAbsorbing ==
    [][\A t \in Created :
          tasks[t].status \in Terminal => tasks'[t].status = tasks[t].status]_vars

\* C5: at most one terminal event is emitted for a task and no event carrying
\* the task follows it: a terminal event is the last event of its task.
C5_TerminalEventIsLast ==
    \A t \in Created : \A i \in 1..Len(events[t]) :
        events[t][i] \in TerminalEvents => i = Len(events[t])

\* C6: addTaskToHistory is called once for a task that has reached a terminal
\* state, with the task in its final status, and not at all for a task that is
\* pending or running.
C6_HistoryCalledOncePerTerminal ==
    \A t \in Created :
        IF tasks[t].status \in Terminal
        THEN historyCalls[t] = <<tasks[t].status>>
        ELSE historyCalls[t] = <<>>

\* C7: a cancelTask call for a running task leaves, when it returns, the task
\* cancelled with a completion timestamp and out of the running set, its
\* supervisor killed once while the worker has not yet reported its exit, one
\* task:cancelled emitted, and the result true.
C7_CancelRunningIsImmediate ==
    [][\A id \in TaskIds :
          (id \in runningTasks /\ ~InPending(id) /\ CancelTask(id)) =>
              /\ tasks'[id].status = "cancelled"
              /\ tasks'[id].completedAt
              /\ id \notin runningTasks'
              /\ procs'[id].kills = 1
              /\ procs'[id].signals = 1
              /\ procs'[id].child = "alive"
              /\ events'[id] = Append(events[id], "task:cancelled")
              /\ CountEvents(id, "task:cancelled") = 0
              /\ cancelResult' = "true"]_vars

\* C7 witness: a task was cancelled while running, the call returned true and
\* the killed worker has not yet reported its exit.
C7_Witness ==
    \E t \in Created :
        /\ tasks[t].status = "cancelled"
        /\ tasks[t].startedAt
        /\ procs[t].child = "alive"
        /\ procs[t].kills = 1
        /\ t \notin runningTasks
        /\ cancelResult = "true"

\* C8: the admission cycle is work-conserving: once nothing asynchronous is in
\* flight, the pending queue is empty or the running set is at the ceiling.
C8_WorkConserving ==
    Settled => (getPendingCount = 0 \/ getRunningCount >= MAX_CONCURRENT_TASKS)

\* C9: a non-zero exit of a running task's worker whose text matches the
\* budget-exceeded pattern, with fewer than 2 retries so far, does not finalize
\* the task: task:retrying and a new task:started are emitted and the task
\* stays running.
C9_BudgetExceededIsRetried ==
    [][\A t \in Created :
          (/\ t \in runningTasks
           /\ BudgetExceeded(tasks[t])
           /\ CountEvents(t, "task:retrying") < 2
           /\ \E code \in ExitCodes \ {"0"} : ProcExit(t, code)) =>
              /\ tasks'[t].status = "running"
              /\ t \in runningTasks'
              /\ events'[t] = events[t] \o <<"task:retrying", "task:started">>]_vars

\* C10: a task whose worker keeps failing on the budget-exceeded pattern is
\* finalized failed only after two retries, with one task:failed event and one
\* history write.
C10_FailedAfterTwoRetries ==
    \A t \in Created :
        (/\ tasks[t].status = "failed"
         /\ procs[t].child = "exited"
         /\ t \notin Cancelled
         /\ BudgetExceeded(tasks[t])) =>
            /\ CountEvents(t, "task:retrying") = 2
            /\ CountEvents(t, "task:failed") = 1
            /\ Len(historyCalls[t]) = 1

\* C11: each budget-exceeded retry doubles the task's maxBudget and spawns the
\* replacement worker with the doubled value: when the worker of a running
\* task with fewer than 2 retries exits non-zero on the budget-exceeded
\* pattern, maxBudget is twice what it was and a new worker has been spawned
\* with it.
C11_RetryDoublesBudget ==
    [][\A t \in Created :
          (/\ t \in runningTasks
           /\ BudgetExceeded(tasks[t])
           /\ CountEvents(t, "task:retrying") < 2
           /\ \E code \in ExitCodes \ {"0"} : ProcExit(t, code)) =>
              /\ tasks'[t].maxBudget = 2 * tasks[t].maxBudget
              /\ procs'[t].spawns = procs[t].spawns + 1
              /\ procs'[t].maxBudget = tasks'[t].maxBudget]_vars

\* C12: a retry keeps the concurrency slot: when the worker of a running task
\* with fewer than 2 retries exits non-zero on the budget-exceeded pattern,
\* the task stays in the running set and out of the pending queue,
\* getRunningCount() is what it was, and nothing is set going that would admit
\* a pending task (the queue and the tasks being started are as they were, and
\* no continuation is left that ends in an admission cycle).
C12_RetryKeepsSlot ==
    [][\A t \in Created :
          (/\ t \in runningTasks
           /\ BudgetExceeded(tasks[t])
           /\ CountEvents(t, "task:retrying") < 2
           /\ \E code \in ExitCodes \ {"0"} : ProcExit(t, code)) =>
              /\ t \in runningTasks'
              /\ Cardinality(runningTasks') = getRunningCount
              /\ pendingTasks' = pendingTasks
              /\ starting' = starting
              /\ [task |-> t, awaitedBy |-> "exit"] \notin historyWrites']_vars

\* C13: a non-zero exit of a running task's worker whose output and error text
\* do not match the budget-exceeded pattern is not retried: that first exit
\* finalizes the task as failed with task:failed as its next event, no
\* task:retrying is emitted and the worker stays the only one spawned for the
\* task; and at no time has a task without matching text a task:retrying
\* event or a second worker.
C13_NoRetryWithoutSignal ==
    /\ [][\A t \in Created :
            (/\ t \in runningTasks
             /\ ~BudgetExceeded(tasks[t])
             /\ \E code \in ExitCodes \ {"0"} : ProcExit(t, code)) =>
                /\ procs[t].spawns = 1
                /\ tasks'[t].status = "failed"
                /\ t \notin runningTasks'
                /\ events'[t] = Append(events[t], "task:failed")
                /\ procs'[t].child = "exited"
                /\ procs'[t].spawns = 1]_vars
    /\ [](\A t \in Created :
            ~BudgetExceeded(tasks[t]) =>
                /\ CountEvents(t, "task:retrying") = 0
                /\ procs[t].spawns <= 1)

\* C13 witness: a task whose worker wrote text that does not match and exited
\* non-zero is failed, with one worker spawned and no retry event.
C13_Witness ==
    \E t \in Created :
        /\ tasks[t].status = "failed"
        /\ tasks[t].error = <<"boom">>
        /\ procs[t].child = "exited"
        /\ procs[t].spawns = 1
        /\ t \notin Cancelled
        /\ CountEvents(t, "task:retrying") = 0

\* C14: a createTask call whose project lookup finds nothing rejects and
\* leaves the engine as it was: no Task is created, the pending queue, the
\* tasks being started and the running set are unchanged, no event is emitted,
\* no worker is spawned and addTaskToHistory is not called; and a call rejects
\* in no other way.
C14_CreateRejectsUnchanged ==
    [][/\ CreateTaskLookupDone(FALSE) => rejected' = rejected + 1
       /\ rejected' # rejected =>
            /\ rejected' = rejected + 1
            /\ creating' = creating - 1
            /\ UNCHANGED <<tasks, pendingTasks, starting, runningTasks, procs,
                           events, payloads, historyCalls, historyWrites>>]_vars

\* C14 witness: a createTask call was rejected while another task was running.
C14_Witness == rejected > 0 /\ runningTasks # {}

\* a task that startTask failed because its project was gone
LateFailed(t) == tasks[t].status = "failed" /\ ~tasks[t].startedAt

\* C15: a pending task whose project lookup at start finds nothing ends failed
\* with error 'Project not found', one task:failed event and one history call,
\* without a worker and without ever entering the running set; and when the
\* history write that startTask awaits is over, the same admission cycle goes
\* on: the head of the queue, if any, is started when a slot is free.
C15_LateBindingFailure ==
    /\ [](\A t \in Created :
            LateFailed(t) =>
                /\ tasks[t].error = <<"Project not found">>
                /\ events[t] = <<"task:created", "task:failed">>
                /\ historyCalls[t] = <<"failed">>
                /\ procs[t].spawns = 0
                /\ t \notin runningTasks)
    /\ [][\A t \in Created :
            LET w == [task |-> t, awaitedBy |-> "startTask"]
                q == ProcessQueue(pendingTasks, runningTasks, starting)
            IN  (w \in historyWrites /\ w \notin historyWrites') =>
                    /\ pendingTasks' = q.pendingTasks
                    /\ starting' = q.starting]_vars

\* the event types that may come right before an event of the given type in
\* the order created, started, (output | retrying, started)*, terminal; a
\* task cancelled while pending or failed at start has no task:started
MayPrecede(type) ==
    CASE type = "task:created"   -> {}
      [] type = "task:started"   -> {"task:created", "task:retrying"}
      [] type = "task:output"    -> {"task:started", "task:output"}
      [] type = "task:retrying"  -> {"task:started", "task:output"}
      [] type = "task:completed" -> {"task:started", "task:output"}
      [] type = "task:failed"    -> {"task:created", "task:started", "task:output"}
      [] type = "task:cancelled" -> {"task:created", "task:started", "task:output"}

\* C16: the events of a task come in the order created, then started, then
\* output chunks (or retrying followed by started), then one terminal event:
\* task:created is first and each later event follows one it may follow, so
\* nothing comes after a terminal event, no task:output comes before
\* task:started and task:completed comes only after task:started.
C16_EventOrder ==
    \A t \in Created :
        /\ events[t] # <<>>
        /\ events[t][1] = "task:created"
        /\ \A i \in 2..Len(events[t]) :
              events[t][i - 1] \in MayPrecede(events[t][i])

\* C17: cancelTask(id) for an id that is in neither the pending queue nor the
\* running set returns false and changes nothing: tasks, queue, running set,
\* workers, events and history calls stay as they are, and only such a call
\* returns false.  A task that has reached a terminal state is in neither
\* collection, so a second cancelTask for a cancelled task is such a call.
C17_CancelNotFoundIsNoOp ==
    /\ [][\A id \in TaskIds :
            (~InPending(id) /\ id \notin runningTasks /\ CancelTask(id)) =>
                cancelResult' = "false"]_vars
    /\ [][(cancelResult' # cancelResult /\ cancelResult' = "false") =>
            UNCHANGED <<tasks, pendingTasks, runningTasks, starting, procs,
                        events, payloads, historyCalls, historyWrites>>]_vars
    /\ [][cancelResult' = "true" =>
            UNCHANGED cancelResult \/ Cancelled' # Cancelled]_vars
    /\ [](\A t \in Created : tasks[t].status \in Terminal => getTask(t) = 0)

\* C17 witness: a task was cancelled and a later cancelTask call returned
\* false.
C17_Witness == Cancelled # {} /\ cancelResult = "false"

\* where a task stands in the pending queue
IndexOf(q, id) == CHOOSE i \in 1..Len(q) : q[i] = id

\* C18: cancelTask of a pending task returns true with that task alone taken
\* out of the queue (the others keep their order), marked cancelled with a
\* completion timestamp, task:cancelled emitted once and addTaskToHistory
\* called; the running set, the tasks being started, the other tasks and
\* every worker are unchanged; and the task is never started afterwards.
C18_CancelPending ==
    /\ [][\A id \in TaskIds :
            (InPending(id) /\ CancelTask(id)) =>
                LET k == IndexOf(pendingTasks, id)
                IN  /\ Len(pendingTasks') = Len(pendingTasks) - 1
                    /\ \A i \in 1..Len(pendingTasks') :
                          pendingTasks'[i] = pendingTasks[IF i < k THEN i ELSE i + 1]
                    /\ tasks' = [tasks EXCEPT ![id].status = "cancelled",
                                              ![id].completedAt = TRUE]
                    /\ events' = [events EXCEPT ![id] = <<"task:created", "task:cancelled">>]
                    /\ historyCalls' = [historyCalls EXCEPT ![id] = <<"cancelled">>]
                    /\ cancelResult' = "true"
                    /\ UNCHANGED <<runningTasks, starting, procs, payloads,
                                   historyWrites>>]_vars
    /\ [](\A t \in Created :
            (Len(events[t]) >= 2 /\ events[t][2] = "task:cancelled") =>
                /\ events[t] = <<"task:created", "task:cancelled">>
                /\ tasks[t].status = "cancelled"
                /\ ~InPending(t) /\ t \notin starting /\ t \notin runningTasks
                /\ procs[t] = NoProc)

\* C18 witness: a task was cancelled while others were queued behind it, and
\* they still are, behind three running tasks.
C18_Witness ==
    \E t \in Created :
        /\ events[t] = <<"task:created", "task:cancelled">>
        /\ Len(pendingTasks) >= 1
        /\ t < Head(pendingTasks)
        /\ getRunningCount = MAX_CONCURRENT_TASKS
        /\ cancelResult = "true"

\* C19: the exit of a running task's worker finalizes the task by exit code:
\* code 0 gives status completed and task:completed; another code gives status
\* failed and task:failed, with error the text received on stderr if there
\* was any and 'Process exited with code N' otherwise.  Either way the task
\* leaves the running set, has completedAt and durationMs set, and
\* addTaskToHistory is called with it.
C19_ExitFinalizesByCode ==
    [][\A t \in Created, code \in ExitCodes :
          (t \in runningTasks /\ ProcExit(t, code)) =>
              /\ t \notin runningTasks'
              /\ tasks'[t].completedAt /\ tasks'[t].durationMs
              /\ historyCalls'[t] = Append(historyCalls[t], tasks'[t].status)
              /\ [task |-> t, awaitedBy |-> "exit"] \in historyWrites'
              /\ tasks'[t].output = tasks[t].output
              /\ IF code = "0"
                 THEN /\ tasks'[t].status = "completed"
                      /\ events'[t] = Append(events[t], "task:completed")
                      /\ tasks'[t].error = tasks[t].error
                 ELSE /\ tasks'[t].status = "failed"
                      /\ events'[t] = Append(events[t], "task:failed")
                      /\ tasks'[t].error =
                            IF procs[t].errorOutput # <<>>
                            THEN procs[t].errorOutput
                            ELSE <<"Process exited with code 1">>]_vars

\* C19 witness: one task failed on stderr text, another failed with the exit
\* message, or completed.
C19_Witness ==
    \E t, u \in Created :
        /\ tasks[t].status = "failed" /\ tasks[t].error = <<"boom">>
        /\ tasks[t].durationMs /\ historyCalls[t] = <<"failed">>
        /\ t \notin Cancelled /\ u \notin Cancelled
        /\ \/ tasks[u].status = "failed" /\ tasks[u].error = <<"Process exited with code 1">>
           \/ tasks[u].status = "completed" /\ historyCalls[u] = <<"completed">>

\* the last element of a non-empty sequence
Last(q) == q[Len(q)]

\* C20: while a task is running, task.output is the chunks its supervisor has
\* read from stdout, in the order they arrived, and the task:output events of
\* the task carry those chunks one each; task.error is the chunks read from
\* stderr, in order.  A stdout chunk appends itself to task.output and emits
\* one task:output carrying it alone; a stderr chunk appends itself to
\* task.error and emits nothing.
C20_OutputAppendOnly ==
    /\ [](\A t \in Created :
            tasks[t].status = "running" =>
                /\ tasks[t].output = procs[t].output
                /\ payloads[t] = procs[t].output
                /\ CountEvents(t, "task:output") = Len(procs[t].output)
                /\ tasks[t].error = procs[t].errorOutput)
    /\ [][\A t \in Created :
            (tasks[t].status = "running" /\ procs'[t].output # procs[t].output) =>
                /\ tasks'[t].output = Append(tasks[t].output, Last(procs'[t].output))
                /\ events' = [events EXCEPT ![t] = Append(@, "task:output")]
                /\ payloads' = [payloads EXCEPT ![t] = Append(@, Last(procs'[t].output))]
                /\ tasks'[t].error = tasks[t].error]_vars
    /\ [][\A t \in Created :
            (tasks[t].status = "running" /\ procs'[t].errorOutput # procs[t].errorOutput) =>
                /\ tasks'[t].error = Append(tasks[t].error, Last(procs'[t].errorOutput))
                /\ tasks'[t].output = tasks[t].output
                /\ UNCHANGED <<events, payloads>>]_vars

\* C20 witness: a running task has received two different stdout chunks and a
\* stderr chunk.
C20_Witness ==
    \E t \in Created :
        /\ tasks[t].status = "running"
        /\ tasks[t].output = <<"MaxTurns", "ab">>
        /\ payloads[t] = <<"MaxTurns", "ab">>
        /\ tasks[t].error = <<"boom">>

\* C21: each task in the pending queue has status pending; each task in the
\* running set has status running and one supervisor; no task is in both
\* collections or twice in the queue; no task with a terminal status is in
\* either, so getTask finds no task that is completed, failed or cancelled.
C21_CollectionsMatchStatus ==
    /\ \A i \in 1..Len(pendingTasks) :
          /\ pendingTasks[i] \in Created
          /\ tasks[pendingTasks[i]].status = "pending"
          /\ pendingTasks[i] \notin runningTasks
          /\ \A j \in 1..Len(pendingTasks) : pendingTasks[j] = pendingTasks[i] => j = i
    /\ \A t \in runningTasks :
          /\ t \in Created
          /\ tasks[t].status = "running"
          /\ procs[t].child # "none"
          /\ procs[t].spawns = 1
    /\ \A t \in Created :
          tasks[t].status \in Terminal =>
              ~InPending(t) /\ t \notin runningTasks /\ getTask(t) = 0

\* C21 witness: a task is queued behind three running ones while another has
\* reached a terminal state.
C21_Witness ==
    /\ getPendingCount >= 1
    /\ getRunningCount = MAX_CONCURRENT_TASKS
    /\ \E t \in Created : tasks[t].status \in Terminal

\* C22: getActiveTasks() returns the tasks of the running set followed by the
\* pending queue in queue order: its first getRunningCount() entries are the
\* running set, the rest is the queue as it stands, every running task comes
\* before every pending one, no task appears twice and none is terminal.
C22_ActiveTasksRunningFirst ==
    LET a == getActiveTasks
        k == getRunningCount
    IN  /\ Len(a) = k + getPendingCount
        /\ {a[i] : i \in 1..k} = runningTasks
        /\ \A i \in 1..getPendingCount : a[k + i] = pendingTasks[i]
        /\ \A i, j \in 1..Len(a) :
              /\ a[i] = a[j] => i = j
              /\ (a[i] \in runningTasks /\ InPending(a[j])) => i < j
        /\ \A i \in 1..Len(a) : tasks[a[i]].status \notin Terminal

\* C22 witness: three tasks are running and two are queued.
C22_Witness ==
    /\ getRunningCount = MAX_CONCURRENT_TASKS
    /\ getPendingCount = 2
    /\ Len(getActiveTasks) = 5

\* the exit emissions of a supervisor
ExitsEmitted(p) ==
    Cardinality({i \in 1..Len(p.emitted) :
                    p.emitted[i] \in {ExitEvent(code) : code \in ExitCodes}})

\* C23: a started supervisor emits exit exactly once whatever its child does:
\* never more than once, once when the child has exited, and on a failed
\* spawn error(message) once and then exit(1, null).
C23_ExitEmittedOnce ==
    \A t \in TaskIds :
        /\ ExitsEmitted(procs[t]) <= 1
        /\ procs[t].child = "exited" => ExitsEmitted(procs[t]) = 1
        /\ (procs[t].child = "failed" /\ procs[t].errored) =>
              procs[t].emitted = <<"error(message)", "exit(1,null)">>

\* C24: isRunning() is true exactly between a successful start() and the
\* supervisor's exit emission: false before start(), true while the child is
\* alive and has not been sent a kill, and false in every state after exit has
\* been emitted, whether the child exited by itself or after kill().
C24_IsRunningUntilExit ==
    \A t \in TaskIds :
        /\ procs[t].child = "none" => ~isRunning(procs[t])
        /\ (procs[t].child = "alive" /\ ~procs[t].killed
                /\ ExitsEmitted(procs[t]) = 0) => isRunning(procs[t])
        /\ ExitsEmitted(procs[t]) >= 1 => ~isRunning(procs[t])

CeilTenTimes(h) ==
    CHOOSE n \in 25..(h \div 10 + 26) : n * 10 >= h /\ (n = 25 \/ (n - 1) * 10 < h)

\* C26: a supervisor started with a positive budget b launches its worker with
\* '-p', the prompt, the permission-bypass flag, '--max-turns',
\* max(25, ceil(b * 10)) and '--verbose' last (25 turns for b = 0.5, 1 and
\* 2.5, 50 for b = 5, 100 for b = 10); one started without a budget launches
\* it with '-p', the prompt, the flag and '--verbose' alone.
C26_MaxTurnsArgument ==
    \A t \in TaskIds :
        procs[t].child # "none" =>
            LET b == procs[t].maxBudget
                args == procs[t].args
            IN  /\ b = 0 =>
                      args = <<"-p", Prompt, "--dangerously-skip-permissions", "--verbose">>
                /\ b > 0 =>
                      /\ args = <<"-p", Prompt, "--dangerously-skip-permissions",
                                  "--max-turns", NumberToString(CeilTenTimes(b)),
                                  "--verbose">>
                      /\ b <= 250 => args[5] = "25"
                      /\ b = 251 => args[5] = "26"
                      /\ b = 500 => args[5] = "50"
                      /\ b = 1000 => args[5] = "100"

\* C26 witness: a supervisor was started with budget 10 and launched its
\* worker with 100 turns.
C26_Witness ==
    /\ procs[Sup].maxBudget = 1000
    /\ procs[Sup].args = <<"-p", "Fix the bug", "--dangerously-skip-permissions",
                           "--max-turns", "100", "--verbose">>

\* the ids of a list are pairwise distinct
DistinctIds(list) ==
    Cardinality({list[i].id : i \in 1..Len(list)}) = Len(list)

\* call c has its list loaded in this step
Loads(c) ==
    /\ c \in DOMAIN adds
    /\ adds[c].phase = "load"
    /\ c \in DOMAIN adds'
    /\ adds'[c].phase = "save"

\* C27: addTaskToHistory is idempotent under same-ID overwrite.  When a call
\* loads a list that holds the id of its task, the list it goes on to save has
\* the task at the place of the entry with that id and every other entry where
\* it was, so it is as long as the list loaded and in the same order; adding
\* the task to that list once more gives that list again; and the ids of the
\* stored history are pairwise distinct at all times.
C27_SameIdOverwrite ==
    /\ [](DistinctIds(history))
    /\ [][\A c \in 1..MaxAdds :
            (Loads(c) /\ FindIndex(history, adds[c].task.id) # 0) =>
                LET task == adds[c].task
                    list == adds'[c].list
                IN  /\ Len(list) = Len(history)
                    /\ \A i \in 1..Len(history) :
                          list[i] = IF i = FindIndex(history, task.id)
                                    THEN task ELSE history[i]
                    /\ AddTask(list, task) = list]_vars

\* the same task was added twice, by calls that both ended, to a full history
\* that held its id: it has taken the place of the entry and the history is
\* as long as before
C27_Witness ==
    /\ Len(adds) = 2
    /\ adds[1].phase = "done"
    /\ adds[2].phase = "done"
    /\ adds[1].task = adds[2].task
    /\ adds[1].task.id = HISTORY_LIMIT
    /\ Len(history) = HISTORY_LIMIT
    /\ history[HISTORY_LIMIT] = adds[1].task
    /\ history[1] = StoredTask(1, "completed")

\* C28: the stored history holds at most 100 tasks at all times, and so does
\* every list a call is about to save; when a call loads a history of 100
\* tasks that does not hold the id of its task, the list it goes on to save is
\* the history loaded without its first (oldest) entry, in the same order,
\* with the task as its last entry.
C28_HistoryKeepsLastHundred ==
    /\ [](/\ Len(history) <= HISTORY_LIMIT
          /\ \A c \in DOMAIN adds : Len(adds[c].list) <= HISTORY_LIMIT)
    /\ [][\A c \in 1..MaxAdds :
            (/\ Loads(c)
             /\ Len(history) = HISTORY_LIMIT
             /\ FindIndex(history, adds[c].task.id) = 0) =>
                adds'[c].list = Append(Tail(history), adds[c].task)]_vars

\* two tasks with new ids were added, one call after the other, to a history
\* of 100: its two oldest entries are gone and the two tasks are its last
C28_Witness ==
    /\ Len(adds) = 2
    /\ adds[1].phase = "done"
    /\ adds[2].phase = "done"
    /\ Len(history) = HISTORY_LIMIT
    /\ history[1] = StoredTask(3, "completed")
    /\ history[HISTORY_LIMIT - 1] = adds[1].task
    /\ history[HISTORY_LIMIT] = adds[2].task
    /\ adds[1].task.id = HISTORY_LIMIT + 1
    /\ adds[2].task.id = HISTORY_LIMIT + 2

\* the events emitted in this step, as the messages made of them: the events
\* of one step carry one task
EmittedNow ==
    LET changed == {t \in TaskIds : events'[t] # events[t]}
    IN  IF changed = {} THEN <<>>
        ELSE LET t == CHOOSE t \in changed : TRUE
                 new == SubSeq(events'[t], Len(events[t]) + 1, Len(events'[t]))
             IN  [i \in 1..Len(new) |->
                    IF new[i] = "task:output"
                    THEN Message(new[i], t, "none", Last(payloads'[t]))
                    ELSE Message(new[i], t, tasks'[t], "none")]

\* C29: the first message a client is sent is an initial message, it is the
\* only one, and it lists getActiveTasks() as of the connection; every event
\* emitted in a step is appended, as emitted and in order, to what each client
\* that is OPEN has been sent, and a client that is not OPEN is sent nothing.
C29_InitialThenEveryEvent ==
    /\ [](\A c \in DOMAIN clients :
            /\ Len(clients[c].received) >= 1
            /\ \A i \in 1..Len(clients[c].received) :
                  clients[c].received[i].type = "initial" <=> i = 1)
    /\ [][/\ \A c \in DOMAIN clients :
                clients'[c].received =
                    IF clients[c].readyState = "OPEN"
                    THEN clients[c].received \o EmittedNow
                    ELSE clients[c].received
          /\ \A c \in DOMAIN clients' \ DOMAIN clients :
                clients'[c].received = <<InitialMessage(getActiveTasks, tasks)>>]_vars

\* a client connected while a task was running and was sent it in the initial
\* message, then its output and its end; another, which had begun to close
\* before the chunk came, was sent the start of the task and nothing after
C29_Witness ==
    /\ Len(clients) = 2
    /\ clients[1].readyState # "OPEN"
    /\ Len(clients[1].received) = 2
    /\ clients[1].received[2].type = "task:started"
    /\ clients[2].readyState = "OPEN"
    /\ Len(clients[2].received) = 3
    /\ Len(clients[2].received[1].tasks) = 1
    /\ clients[2].received[2].type = "task:output"
    /\ clients[2].received[3].type \in {"task:completed", "task:failed"}

\* the worker of t could not be spawned and the handlers of its failure have run
SpawnFailed(t) ==
    /\ t \in Created
    /\ procs[t].child = "failed"
    /\ procs[t].errored

\* C30: a task whose worker could not be spawned is failed, with the message
\* of the spawn error as its error text, carries one task:failed event, has
\* been handed to addTaskToHistory once with that status, and holds no slot;
\* and once its addTaskToHistory call has ended and nothing else is under way,
\* no task is left pending while a slot is free.
C30_SpawnFailureFailsTask ==
    \A t \in TaskIds :
        SpawnFailed(t) =>
            /\ tasks[t].status = "failed"
            /\ tasks[t].error = <<SpawnErrorMessage>>
            /\ CountEvents(t, "task:failed") = 1
            /\ historyCalls[t] = <<"failed">>
            /\ t \notin runningTasks
            /\ (Settled /\ pendingTasks # <<>>) =>
                    getRunningCount >= MAX_CONCURRENT_TASKS

\* C31: when an awaited addTaskToHistory call ends, resolved or rejected, what
\* awaited it goes on to the admission cycle: the head of the queue is taken
\* off it to be started when a slot is free.
C31_HistoryFailureKeepsAdmitting ==
    [][\A t \in Created : \A by \in Awaiters :
          LET w == [task |-> t, awaitedBy |-> by]
              q == ProcessQueue(pendingTasks, runningTasks, starting)
          IN  (w \in historyWrites /\ w \notin historyWrites') =>
                  /\ pendingTasks' = q.pendingTasks
                  /\ starting' = q.starting]_vars

\* C32: every task createTask has accepted reaches a terminal state in the end
\* and has a terminal event: it does not stay pending or running forever.
C32_EveryTaskTerminates ==
    \A t \in TaskIds :
        (t \in Created) ~>
            /\ t \in Created
            /\ tasks[t].status \in Terminal
            /\ \E i \in 1..Len(events[t]) : events[t][i] \in TerminalEvents

\* C33: once every addTaskToHistory call made has ended with its write done,
\* the stored history holds the task of each of them.
C33_NoOutcomeLost ==
    (\A c \in DOMAIN adds : adds[c].phase = "done") =>
        \A c \in DOMAIN adds :
            \E i \in 1..Len(history) : history[i].id = adds[c].task.id

\* the workers that have been spawned and have not exited
AliveWorkers == {t \in TaskIds : procs[t].child = "alive"}

\* C34: at most 3 workers are alive at every point, the workers of cancelled
\* tasks that have not yet exited among them.
C34_AliveWorkersAtMostCeiling ==
    Cardinality(AliveWorkers) <= MAX_CONCURRENT_TASKS

\* C35: the step in which a worker's exit takes its task out of the running
\* set is the step that emits the task's task:completed or task:failed: no
\* event of another task comes with it, the queue is left as it is (the
\* admission cycle for the slot has not begun) and the history write of the
\* task is begun in it and not over.  So a task that was started and is out of
\* the running set has a terminal event in every state.
C35_TerminalEventBeforeAdmission ==
    /\ [](\A t \in Created :
            (CountEvents(t, "task:started") > 0 /\ t \notin runningTasks) =>
                \E i \in 1..Len(events[t]) : events[t][i] \in TerminalEvents)
    /\ [][\A t \in Created : \A code \in ExitCodes :
            ProcExit(t, code) =>
                /\ t \notin runningTasks'
                /\ events'[t] = Append(events[t],
                        IF code = "0" THEN "task:completed" ELSE "task:failed")
                /\ \A u \in TaskIds \ {t} : events'[u] = events[u]
                /\ pendingTasks' = pendingTasks
                /\ starting' = starting
                /\ [task |-> t, awaitedBy |-> "exit"] \in historyWrites']_vars

\* a worker has exited and its task has its terminal event, the history write
\* of the task is not over, and a task waits in the queue beside the free slot
C35_Witness ==
    \E t \in Created :
        /\ procs[t].child = "exited"
        /\ Last(events[t]) \in {"task:completed", "task:failed"}
        /\ [task |-> t, awaitedBy |-> "exit"] \in historyWrites
        /\ pendingTasks # <<>>
        /\ getRunningCount < MAX_CONCURRENT_TASKS
        /\ starting = {}

\* the exit messages an exit handler may put in task.error
ExitMessages == {ExitMessage(code) : code \in ExitCodes \ {"0"}}

\* C36: cancellation attaches no error text.  A cancelTask call leaves
\* task.error of every task as it was; a task cancelled while pending (no
\* worker was ever spawned for it) has no error and was handed to
\* addTaskToHistory as cancelled; and the error of a task that was cancelled
\* never holds a 'Process exited with code ...' message.
C36_CancelAttachesNoError ==
    /\ [][\A id \in TaskIds :
            CancelTask(id) =>
                \A t \in Created : tasks'[t].error = tasks[t].error]_vars
    /\ [](\A t \in Cancelled :
            /\ procs[t].spawns = 0 =>
                  /\ tasks[t].error = <<>>
                  /\ tasks[t].status = "cancelled"
                  /\ historyCalls[t] = <<"cancelled">>
            /\ \A i \in 1..Len(tasks[t].error) : tasks[t].error[i] \notin ExitMessages)

\* the emissions of one kind a supervisor has made
Emissions(p, kinds) ==
    Cardinality({i \in 1..Len(p.emitted) : p.emitted[i] \in kinds})

\* C37: no handler of the supervisor has thrown, whether or not an observer
\* is subscribed to its error event: every stderr chunk and every spawn error
\* has been emitted as an error event, every stdout chunk as an output event,
\* and the chunks are held in getErrorOutput() and getOutput().
C37_ErrorsNeverThrow ==
    LET p == procs[Sup]
    IN  /\ ~p.threw
        /\ Emissions(p, {"error(data)"}) = Len(p.errorOutput)
        /\ Emissions(p, {"error(message)"}) = (IF p.errored THEN 1 ELSE 0)
        /\ Emissions(p, {"output(data)"}) = Len(p.output)
====
